---- MODULE Spec2Model ----
(***************************************************************************)
(* position_steps.py: drive one moteus controller through discrete         *)
(* position steps and log the telemetry to a CSV file.                     *)
(*                                                                         *)
(* The control flow of main() is modelled statement by statement; pc is    *)
(* the position of the coroutine.  time.time() is the variable clock, an   *)
(* integer number of seconds; each call of time.time() returns the        *)
(* previous reading plus the time that passed in between (or, the wall     *)
(* clock being adjustable, a second less).  Positions are exact fractions  *)
(* [num, den].                                                             *)
(***************************************************************************)
EXTENDS Integers, Sequences, FiniteSets, TLC

(* ----------------------------- bounds ---------------------------------- *)

\* the longest time (seconds) between two calls of time.time()
MaxAdvance == 3
\* the latest wall-clock time (seconds) at which the program may be started
MaxStart == 1
\* how many times the wall clock may be set back by one second during a run
MaxBackSteps == 1
\* how many loop iterations may start while the clock does not advance
MaxIdle == 1

(* ------------------------- program constants --------------------------- *)

STEP_TIME_S == 2
STEP_DIVISIONS == 6

\* every clock reading from MaxClock on lies past the end of the run:
\* start_s <= MaxStart, so MaxClock - start_s > STEP_TIME_S * (STEP_DIVISIONS + 1)
MaxClock == MaxStart + STEP_TIME_S * (STEP_DIVISIONS + 1) + 1

\* two columns listed in the wrong order
fieldnames_Swapped ==
  <<"time", "position", "desired_position", "velocity", "torque", "mode", "fault">>

\* lines 37-45
fieldnames ==
  <<"time", "desired_position", "position", "velocity", "torque", "mode", "fault">>

\* the telemetry snapshots a controller may answer with (register values)
Telemetry ==
  { [position |-> 1, velocity |-> 2, torque |-> 3, mode |-> 10, fault |-> 0],
    [position |-> 4, velocity |-> 5, torque |-> 6, mode |-> 1, fault |-> 33] }

None == [none |-> TRUE]

(* ------------------------------ state ---------------------------------- *)

VARIABLES
  pc,               \* position of main()
  clock,            \* what time.time() returns now
  back_steps,       \* how often the clock has been set back
  start_s,          \* line 58
  offset_s,         \* line 65
  desired_position, \* line 75
  state,            \* reply of the last set_position, line 80
  output_file,      \* [header, rows, last]: what has been written to the CSV
  device,           \* [stop, rezero, position, replies, last]: commands issued
  seen,             \* numerators of the setpoints commanded so far
  startup,          \* the start-up steps in the order they happened
  iterations,       \* [started, completed, idle] loop iterations
  failed            \* an exception has been raised

vars == <<pc, clock, back_steps, start_s, offset_s, desired_position, state,
          output_file, device, seen, startup, iterations, failed>>

(* --------------------------- pure helpers ------------------------------ *)

Rat(n, d) == [num |-> n, den |-> d]

\* math.floor(a / b) for b > 0
Floor(a, b) == a \div b

\* int() in place of math.floor(): rounds towards zero
DesiredPosition_Trunc(t) ==
  Rat(IF t >= 0 THEN t \div STEP_TIME_S ELSE -((-t) \div STEP_TIME_S),
      STEP_DIVISIONS)

\* the step index wrapped into one revolution
DesiredPosition_Wrap(t) == Rat(Floor(t, STEP_TIME_S) % STEP_DIVISIONS, STEP_DIVISIONS)

\* line 75: math.floor(offset_s / STEP_TIME_S) / STEP_DIVISIONS
DesiredPosition(t) == Rat(Floor(t, STEP_TIME_S), STEP_DIVISIONS)

\* one step too many
PastEnd_OneMore(t) == t > STEP_TIME_S * (STEP_DIVISIONS + 2)

\* >= in place of >
PastEnd_AtEnd(t) == t >= STEP_TIME_S * (STEP_DIVISIONS + 1)

\* line 68: offset_s > STEP_TIME_S * (STEP_DIVISIONS + 1)
PastEnd(t) == t > STEP_TIME_S * (STEP_DIVISIONS + 1)

\* lines 91-99: DictWriter.writerow lays the dict out in fieldnames order
RowDict(t, dp, st) ==
  [time |-> t, desired_position |-> dp, position |-> st.position,
   velocity |-> st.velocity, torque |-> st.torque, mode |-> st.mode,
   fault |-> st.fault]

WriteRowLine(d) == [i \in 1..Len(fieldnames) |-> d[fieldnames[i]]]

\* the step index is sent, not divided by STEP_DIVISIONS
PositionCommand_StepIndex(dp, t) ==
  [op |-> "set_position", position |-> Rat(dp.num, 1), accel_limit |-> 2,
   velocity_limit |-> 5, query |-> TRUE, t |-> t]

\* lines 80-83: the command set_position sends
PositionCommand(dp, t) ==
  [op |-> "set_position", position |-> dp, accel_limit |-> 2,
   velocity_limit |-> 5, query |-> TRUE, t |-> t]

\* the clock d seconds later
Advance(d) == IF clock + d > MaxClock THEN MaxClock ELSE clock + d

Deltas == 0..MaxAdvance
BackDeltas == IF back_steps < MaxBackSteps /\ clock > 0 THEN {-1} ELSE {}

\* line 64: time.time(), dts being the time that may have passed since the
\* previous call
TimeTime(dts) ==
  \E d \in dts :
    /\ clock' = Advance(d)
    /\ back_steps' = IF d < 0 THEN back_steps + 1 ELSE back_steps

\* the exception is caught and the call is made again
Raise_Retry == pc' = pc /\ failed' = TRUE

\* an exception leaves main() and asyncio.run(): the process ends
Raise == pc' = "crashed" /\ failed' = TRUE

(* ------------------------------ Init ----------------------------------- *)

Init ==
  /\ pc = "open"
  /\ clock \in 0..MaxStart
  /\ back_steps = 0
  /\ start_s = 0           \* unbound until line 58, not read before
  /\ offset_s = 0          \* unbound until line 65, not read before
  /\ desired_position = None
  /\ state = [values |-> None, reply_to |-> 0]
  /\ output_file = [header |-> 0, rows |-> 0, last |-> <<>>, columns |-> <<>>]
  /\ device = [stop |-> 0, rezero |-> 0, position |-> 0, replies |-> 0,
               last |-> [op |-> "none"]]
  /\ seen = {}
  /\ startup = <<>>
  /\ iterations = [started |-> 0, completed |-> 0, idle |-> 0]
  /\ failed = FALSE

(* ----------------------------- actions --------------------------------- *)

\* the start-up log after step e (each step is logged once)
Logged(e) == IF \E i \in 1..Len(startup) : startup[i] = e
               THEN startup ELSE Append(startup, e)

\* lines 36-47: open the file, write the header
WriteHeader ==
  /\ pc = "open"
  /\ output_file' = [output_file EXCEPT !.header = @ + 1, !.columns = fieldnames]
  /\ startup' = Append(startup, "header")
  /\ pc' = "set_stop"
  /\ UNCHANGED <<clock, back_steps, start_s, offset_s, desired_position, state,
                 device, seen, iterations, failed>>

\* line 52: await c.set_stop()
SetStop ==
  /\ pc = "set_stop"
  /\ device' = [device EXCEPT !.stop = @ + 1, !.last = [op |-> "set_stop"]]
  /\ startup' = Append(startup, "set_stop")
  /\ pc' = "set_rezero"
  /\ UNCHANGED <<clock, back_steps, start_s, offset_s, desired_position, state,
                 output_file, seen, iterations, failed>>

\* the re-zero is left out
SetRezero_Skipped ==
  /\ pc = "set_rezero"
  /\ pc' = "start"
  /\ UNCHANGED <<clock, back_steps, start_s, offset_s, desired_position, state,
                 output_file, device, seen, startup, iterations, failed>>

\* line 56: await c.set_rezero()
SetRezero ==
  /\ pc = "set_rezero"
  /\ device' = [device EXCEPT !.rezero = @ + 1, !.last = [op |-> "set_rezero"]]
  /\ startup' = Append(startup, "set_rezero")
  /\ pc' = "start"
  /\ UNCHANGED <<clock, back_steps, start_s, offset_s, desired_position, state,
                 output_file, seen, iterations, failed>>

\* line 58: start_s = time.time()
SampleStart ==
  /\ pc = "start"
  /\ start_s' = clock
  /\ startup' = Append(startup, "start")
  /\ pc' = "loop"
  /\ UNCHANGED <<clock, back_steps, offset_s, desired_position, state,
                 output_file, device, seen, iterations, failed>>

\* lines 64-75: sample the time, leave the loop or compute the setpoint
LoopTop(dts) ==
  /\ pc = "loop"
  /\ TimeTime(dts)
  /\ LET t == clock' - start_s
         idle == IF iterations.started > 0 /\ t <= offset_s
                   THEN iterations.idle + 1 ELSE iterations.idle
     IN /\ idle <= MaxIdle
        /\ offset_s' = t
        /\ iterations' = [iterations EXCEPT !.started = @ + 1, !.idle = idle]
        /\ IF PastEnd(t)
             THEN /\ pc' = "final_stop"
                  /\ UNCHANGED desired_position
             ELSE /\ pc' = "set_position"
                  /\ desired_position' = DesiredPosition(t)
  /\ UNCHANGED <<start_s, state, output_file, device, seen, startup, failed>>

\* break without the stop command
FinalStop_NoStop ==
  /\ pc = "final_stop"
  /\ pc' = "done"
  /\ UNCHANGED <<clock, back_steps, start_s, offset_s, desired_position, state,
                 output_file, device, seen, startup, iterations, failed>>

\* lines 69-71: await c.set_stop(); print(); break
FinalStop ==
  /\ pc = "final_stop"
  /\ device' = [device EXCEPT !.stop = @ + 1, !.last = [op |-> "set_stop"]]
  /\ pc' = "done"
  /\ UNCHANGED <<clock, back_steps, start_s, offset_s, desired_position, state,
                 output_file, seen, startup, iterations, failed>>

\* lines 80-89: state = await c.set_position(position=desired_position, ...)
SetPosition ==
  /\ pc = "set_position"
  /\ \E reply \in Telemetry :
       state' = [values |-> reply, reply_to |-> device.position + 1]
  /\ device' = [device EXCEPT
                  !.position = @ + 1, !.replies = @ + 1,
                  !.last = PositionCommand(desired_position, offset_s)]
  /\ seen' = seen \cup {desired_position.num}
  /\ startup' = Logged("set_position")
  /\ pc' = "writerow"
  /\ UNCHANGED <<clock, back_steps, start_s, offset_s, desired_position,
                 output_file, iterations, failed>>

\* lines 91-102: csv_writer.writerow({...}); print(...)
WriteRow ==
  /\ pc = "writerow"
  /\ output_file' = [output_file EXCEPT
                       !.rows = @ + 1,
                       !.last = WriteRowLine(
                                  RowDict(offset_s, desired_position, state.values))]
  /\ pc' = "sleep"
  /\ UNCHANGED <<clock, back_steps, start_s, offset_s, desired_position, state,
                 device, seen, startup, iterations, failed>>

\* line 105: await asyncio.sleep(0.01)
Sleep ==
  /\ pc = "sleep"
  /\ iterations' = [iterations EXCEPT !.completed = @ + 1]
  /\ pc' = "loop"
  /\ UNCHANGED <<clock, back_steps, start_s, offset_s, desired_position, state,
                 output_file, device, seen, startup, failed>>

\* lines 36, 47, 91: open() or a write raises OSError
FileFail ==
  /\ pc \in {"open", "writerow"}
  /\ Raise
  /\ UNCHANGED <<clock, back_steps, start_s, offset_s, desired_position, state,
                 output_file, device, seen, startup, iterations>>

\* lines 52, 56, 69, 80: a device call raises, before or after the command
\* went out; no reply is delivered
DeviceFail ==
  /\ pc \in {"set_stop", "set_rezero", "final_stop", "set_position"}
  /\ \E sent \in BOOLEAN :
       IF ~sent
         THEN UNCHANGED <<device, seen, startup>>
       ELSE IF pc = "set_rezero"
         THEN /\ device' = [device EXCEPT !.rezero = @ + 1,
                                          !.last = [op |-> "set_rezero"]]
              /\ startup' = Append(startup, "set_rezero")
              /\ UNCHANGED seen
       ELSE IF pc = "set_position"
         THEN /\ device' = [device EXCEPT
                              !.position = @ + 1,
                              !.last = PositionCommand(desired_position, offset_s)]
              /\ seen' = seen \cup {desired_position.num}
              /\ startup' = Logged("set_position")
       ELSE /\ device' = [device EXCEPT !.stop = @ + 1,
                                        !.last = [op |-> "set_stop"]]
            /\ startup' = IF pc = "set_stop"
                            THEN Append(startup, "set_stop") ELSE startup
            /\ UNCHANGED seen
  /\ Raise
  /\ UNCHANGED <<clock, back_steps, start_s, offset_s, desired_position, state,
                 output_file, iterations>>

Next ==
  \/ WriteHeader
  \/ SetStop
  \/ SetRezero
  \/ SampleStart
  \/ LoopTop(Deltas \cup BackDeltas)
  \/ FinalStop
  \/ SetPosition
  \/ WriteRow
  \/ Sleep
  \/ FileFail
  \/ DeviceFail

Spec == Init /\ [][Next]_vars

\* every await returns and every iteration after the first takes time: the
\* event loop resumes main() whenever it can run
PositiveDeltas == 1..MaxAdvance

NextLive ==
  \/ WriteHeader
  \/ SetStop
  \/ SetRezero
  \/ SampleStart
  \/ LoopTop(IF iterations.started = 0 THEN Deltas ELSE PositiveDeltas)
  \/ FinalStop
  \/ SetPosition
  \/ WriteRow
  \/ Sleep

LiveSpec == Init /\ [][NextLive]_vars /\ WF_vars(NextLive)

(* ------------------------------ claims --------------------------------- *)

Limit == STEP_TIME_S * (STEP_DIVISIONS + 1)

\* p is k / STEP_DIVISIONS with k the largest integer with k * STEP_TIME_S <= t
IsStepOf(p, t) ==
  /\ p.den = STEP_DIVISIONS
  /\ p.num * STEP_TIME_S <= t
  /\ t < (p.num + 1) * STEP_TIME_S

\* C1: every set-position command carries floor(t / T) / D for the elapsed
\* time t sampled at the top of its iteration: 0 on [0, T), 1/D on [T, 2T)
C1_SetpointIsStepFunction ==
  device.last.op = "set_position" =>
    LET p == device.last.position
        t == device.last.t
    IN /\ IsStepOf(p, t)
       /\ (0 <= t /\ t < STEP_TIME_S) => p.num = 0
       /\ (STEP_TIME_S <= t /\ t < 2 * STEP_TIME_S) =>
            (p.num = 1 /\ p.den = STEP_DIVISIONS)

C1_Witness ==
  /\ device.last.op = "set_position"
  /\ device.last.t = STEP_TIME_S + 1
  /\ device.last.position = [num |-> 1, den |-> STEP_DIVISIONS]

\* C2 as stated: a run that ends normally on non-decreasing time samples has
\* commanded exactly D+1 distinct setpoints
C2_ExactlyDPlusOnePlateaus ==
  (pc = "done" /\ back_steps = 0) => Cardinality(seen) = STEP_DIVISIONS + 1

\* C2 amended: on non-decreasing time samples every setpoint commanded is
\* k/D with 0 <= k <= D+1, so at most D+2 distinct setpoints are commanded
C2_AtMostDPlusTwoPlateaus ==
  back_steps = 0 =>
    /\ seen \subseteq 0..(STEP_DIVISIONS + 1)
    /\ Cardinality(seen) <= STEP_DIVISIONS + 2

C2_Witness ==
  /\ pc = "done"
  /\ back_steps = 0
  /\ Cardinality(seen) = STEP_DIVISIONS + 2

\* C3: the loop is left in the first iteration whose elapsed time exceeds
\* T*(D+1) and in none before; when every await returns and every iteration
\* takes time, that iteration comes
C3_ExitsPastEndAndTerminates ==
  /\ [](pc \in {"final_stop", "done"} => offset_s > Limit)
  /\ [](pc \in {"set_position", "writerow", "sleep"} => offset_s <= Limit)
  /\ <>(pc = "done")

C3_Witness == pc = "done" /\ offset_s = Limit + 1 /\ iterations.started >= 3

\* C4 as stated: the number of rows equals the number of loop iterations
\* executed (read between iterations and after the loop)
C4_RowsEqualIterations ==
  pc \in {"loop", "done"} => output_file.rows = iterations.started

\* C4 amended: each iteration that runs to its end writes one row of the
\* seven fields in order and the iteration that leaves the loop writes none:
\* between iterations rows = iterations, after the loop rows = iterations - 1
C4_OneRowPerCompletedIteration ==
  /\ output_file.header = 1 =>
       output_file.columns =
         <<"time", "desired_position", "position", "velocity", "torque",
           "mode", "fault">>
  /\ pc = "loop" =>
       /\ output_file.rows = iterations.completed
       /\ output_file.rows = iterations.started
  /\ pc = "done" => output_file.rows = iterations.started - 1
  /\ output_file.rows <= iterations.started
  /\ output_file.rows >= iterations.completed
  /\ pc = "sleep" =>
       /\ output_file.rows = iterations.started
       /\ output_file.last =
            <<offset_s, desired_position, state.values.position,
              state.values.velocity, state.values.torque, state.values.mode,
              state.values.fault>>

C4_Witness == pc = "sleep" /\ output_file.rows = 3 /\ iterations.completed = 2

\* C5: a run that ends normally ends with set_stop as its last device
\* command, and no command and no row follows
C5_StopIsLast ==
  /\ [](pc = "done" => (device.last.op = "set_stop" /\ device.stop = 2))
  /\ [][pc = "done" => UNCHANGED <<device, output_file>>]_vars

C5_Witness == pc = "done" /\ device.position >= 2 /\ device.last.op = "set_stop"

\* C6: every setpoint commanded at an elapsed time t >= 0 at which the loop
\* goes on lies within one revolution, 0 <= p <= 1
C6_WithinOneRevolution ==
  (device.last.op = "set_position" /\ device.last.t >= 0) =>
    /\ 0 <= device.last.position.num
    /\ device.last.position.num <= device.last.position.den

\* C7: a failed device call or file write ends the process: nothing is
\* retried, no command is issued and no row is written afterwards
C7_FailureEndsTheRun ==
  /\ [](failed => pc = "crashed")
  /\ [][failed => UNCHANGED <<pc, device, output_file>>]_vars

C7_Witness == failed /\ pc = "crashed" /\ device.position >= 2

StartupOrder == <<"header", "set_stop", "set_rezero", "start", "set_position">>

\* C8: header, stop, re-zero, start time, first set-position happen in this
\* order; the header is written once and the re-zero is issued once
C8_StartupOrdered ==
  /\ Len(startup) <= Len(StartupOrder)
  /\ \A i \in 1..Len(startup) : startup[i] = StartupOrder[i]
  /\ output_file.header <= 1
  /\ device.rezero <= 1
  /\ pc \in {"loop", "set_position", "writerow", "sleep", "final_stop", "done"} =>
       /\ output_file.header = 1
       /\ device.rezero = 1
       /\ Len(startup) >= 4

C8_Witness == startup = StartupOrder /\ pc = "sleep"

\* C9 as stated: the number of rows always equals the number of replies
\* (read away from the instant between the reply and its row)
C9_RowsEqualReplies ==
  pc # "writerow" => output_file.rows = device.replies

\* C9 amended: a row is written after the reply to its iteration's command
\* and repeats that command's position, which is the step of the row's time;
\* rows = replies except between a reply and its row, also when the write fails
C9_RowMatchesCommand ==
  /\ output_file.rows <= device.replies
  /\ device.replies <= output_file.rows + 1
  /\ ~failed /\ pc # "writerow" => output_file.rows = device.replies
  /\ pc = "sleep" =>
       /\ device.last.op = "set_position"
       /\ output_file.last[2] = device.last.position
       /\ output_file.last[1] = device.last.t
       /\ IsStepOf(output_file.last[2], output_file.last[1])
       /\ state.reply_to = device.position
       /\ <<output_file.last[3], output_file.last[4], output_file.last[5],
            output_file.last[6], output_file.last[7]>> =
          <<state.values.position, state.values.velocity, state.values.torque,
            state.values.mode, state.values.fault>>

C9_Witness == pc = "sleep" /\ output_file.rows = 2 /\ device.replies = 2

\* C10: while the clock has not been set back, setpoints and row times never
\* decrease, and consecutive setpoints differ by a whole number of steps 1/D
C10_NeverStepsBack ==
  [][back_steps' = 0 =>
       /\ (device.last.op = "set_position" /\ device'.position = device.position + 1)
            => /\ device'.last.position.den = device.last.position.den
               /\ device'.last.position.num >= device.last.position.num
       /\ (output_file.rows >= 1 /\ output_file'.rows = output_file.rows + 1)
            => output_file'.last[1] >= output_file.last[1]]_vars

\* a plateau has been skipped
C10_Witness ==
  /\ back_steps = 0
  /\ output_file.rows >= 2
  /\ {0, 2} \subseteq seen
  /\ 1 \notin seen

====
